---- MODULE Spec2Model ----
(***************************************************************************)
(* Model of src/camera_web/app.py, the dashboard server.                    *)
(* Threads: the main thread (startup connect_camera and connect_robots,    *)
(* then starts the polling thread, picks a port and serves HTTP), the      *)
(* polling thread (robot_polling_thread / read_robot_data), GET            *)
(* /robot_data handlers, POST /reconnect handlers and GET /video_feed      *)
(* streams (generate_frames).  Every access to robot_state happens under   *)
(* robot_lock, every access to camera under camera_lock; each thread's     *)
(* position is kept in pc, the loop index over ["leader", "follower"] in   *)
(* idx.                                                                    *)
(***************************************************************************)
EXTENDS Integers, Sequences, FiniteSets, TLC

\* ------------------------------------------------------------------ bounds
\* Highest value of the clock read by time.time(); it advances by one from a tick
\* of the poller to the next, so this is also the number of ticks.
MaxClock == 2
\* Bus handles per arm that can be open (connected, disconnect not called) at once.
MaxHandles == 2
\* Frames the camera captures (frames are numbered 1, 2, ... as they are captured).
MaxFrames == 2
\* Parts a /video_feed client accepts before it stops reading from its socket.
MaxParts == 2
\* Highest max_attempts find_available_port is called with.
MaxAttempts == 4

\* --------------------------------------------------------------- constants
Arms == {"leader", "follower"}
\* Iteration order of the loops `for arm in ["leader", "follower"]`.
ArmOrder == <<"leader", "follower">>

MOTOR_NAMES ==
  <<"shoulder_pan", "shoulder_lift", "elbow_flex", "wrist_flex", "wrist_roll", "gripper">>
MotorNameSet == {MOTOR_NAMES[i] : i \in 1..Len(MOTOR_NAMES)}
\* MOTOR_IDS = {name: i + 1 for i, name in enumerate(MOTOR_NAMES)}
MOTOR_IDS == [n \in MotorNameSet |-> CHOOSE i \in 1..Len(MOTOR_NAMES) : MOTOR_NAMES[i] = n]

\* The five registers read_robot_data reads, in the order it reads them.
Registers ==
  <<"Present_Voltage", "Present_Temperature", "Present_Load", "Present_Current",
    "Present_Position">>

\* What the hardware can answer to one sync_read, per register: raw values of the
\* six motors in MOTOR_IDS order (voltage in tenths of a volt, position 0..4095).
RawReadings(reg) ==
  CASE reg = "Present_Voltage" ->
         {<<72, 74, 70, 75, 73, 71>>, <<121, 119, 120, 122, 118, 120>>}
    [] reg = "Present_Temperature" ->
         {<<30, 32, 31, 35, 33, 34>>, <<41, 40, 45, 42, 44, 43>>}
    [] reg = "Present_Load" -> {<<10, 0, 25, 3, 7, 90>>}
    [] reg = "Present_Current" -> {<<5, 1, 12, 2, 4, 30>>}
    [] reg = "Present_Position" -> {<<2048, 1024, 3000, 0, 4095, 512>>}

\* bus.sync_read(reg, normalize=False) returns a mapping motor name -> raw value.
SyncReadResult(raw) == [n \in MotorNameSet |-> raw[MOTOR_IDS[n]]]

None == 0
\* The OpenCVCamera object line 67 creates.
CameraObject == 1
\* Line 506: find_available_port(5001).
DefaultStartPort == 5001
BusIds == 1..MaxHandles

\* robot_state[arm]["data"] = {} at construction.
EmptyData == <<>>
\* No bytes: a buffer that holds no image.
NoBytes == <<>>

Pollers == {"poller"}
Getters == {"g1", "g2"}
Reconnectors == {"r1", "r2"}
\* Threads that run connect_robots: the main thread at startup and /reconnect.
Connectors == {"main"} \cup Reconnectors
\* GET /video_feed requests, each served by a thread of its own (threaded=True).
Streams == {"v1", "v2"}
Threads == {"main"} \cup Pollers \cup Getters \cup Reconnectors \cup Streams
NoThread == "none"

VARIABLES
  ports,        \* [Arms -> BOOLEAN]: LEADER_ARM_PORT / FOLLOWER_ARM_PORT is set
  robot_state,  \* [Arms -> [connected, bus, data]]
  robot_lock,   \* the thread holding robot_lock, or NoThread
  openBuses,    \* [Arms -> SUBSET BusIds]: handles connected, disconnect not yet called
  now,          \* the clock time.time() reads
  pc,           \* [Threads -> position]
  idx,          \* [Threads -> index into ArmOrder of the running for-loop]
  reads,        \* poller: the sync_read results obtained so far for the current arm
  resp,         \* /robot_data handlers: the values read so far for the response
  outcome,      \* connect_robots callers: per arm "none" | "ok" | "fail" of this call
  tornDown,     \* reconnect handlers: arms torn down by a call that has not reconnected yet
  published,    \* [Arms -> data]: the snapshot of the arm's latest publish event
  tickPre,      \* poller: robot_state data of both arms when the tick began
  tickFailed,   \* poller: per arm, which of the five reads failed in this tick (0: none)
  camera,       \* the global `camera`: None or the OpenCVCamera object
  camera_lock,  \* the thread holding camera_lock, or NoThread
  captured,     \* number of the latest frame the camera has delivered (0: none yet)
  frame,        \* [Streams -> frame number]: the stream's local frame_bgr (0: unbound)
  buffer,       \* [Streams -> bytes]: the stream's local buffer (NoBytes: unbound)
  out,          \* [Streams -> sequence of bytes]: the bodies of the parts the client received
  clientGone,   \* [Streams -> BOOLEAN]: the stream's client has closed its connection
  occupied,     \* ports on which bind raises OSError (in use by another process)
  start_port,   \* find_available_port's parameter
  max_attempts, \* find_available_port's parameter
  port,         \* find_available_port's loop variable (None: not in the loop)
  bound         \* the port app.run is given (None: server not started)

cameraVars == <<camera, camera_lock, captured, frame, buffer, out, clientGone>>
portVars == <<occupied, start_port, max_attempts, port, bound>>
robotVars ==
  <<ports, robot_state, robot_lock, openBuses, now, idx, reads, resp, outcome, tornDown,
    published, tickPre, tickFailed>>

vars ==
  <<ports, robot_state, robot_lock, openBuses, now, pc, idx, reads, resp, outcome,
    tornDown, published, tickPre, tickFailed, cameraVars, portVars>>

\* ------------------------------------------------------------ pure helpers
\* A conversion that publishes the raw reading as it is.
RawAsPublished(raw) == [volts |-> raw, tenths |-> 0]

\* voltage[name] / 10: Python true division of a raw reading in tenths of a volt,
\* kept exactly as (whole volts, remaining tenths).
Div10(raw) == [volts |-> raw \div 10, tenths |-> raw % 10]

VoltLeq(a, b) == a.volts < b.volts \/ (a.volts = b.volts /\ a.tenths <= b.tenths)

\* Lines 104-112: the motors mapping built from the five read results.
BuildMotors(rd) ==
  [n \in MotorNameSet |->
     [voltage |-> Div10(rd[1][n]),
      temp |-> rd[2][n],
      load |-> rd[3][n],
      current |-> rd[4][n],
      position |-> rd[5][n]]]

\* A minimum that takes the first motor's voltage.
MinVoltageOfFirstMotor(motors) == motors[MOTOR_NAMES[1]].voltage

\* min(m["voltage"] for m in motors.values())
MinVoltage(motors) ==
  CHOOSE v \in {motors[n].voltage : n \in DOMAIN motors} :
    \A n \in DOMAIN motors : VoltLeq(v, motors[n].voltage)

\* max(m["temp"] for m in motors.values())
MaxTemp(motors) ==
  CHOOSE t \in {motors[n].temp : n \in DOMAIN motors} :
    \A n \in DOMAIN motors : motors[n].temp <= t

\* A snapshot published without its summary fields.
SnapshotWithoutSummary(rd, t) == [motors |-> BuildMotors(rd), timestamp |-> t]

\* Lines 114-119: the dict assigned to robot_state[arm]["data"].
Snapshot(rd, t) ==
  [motors |-> BuildMotors(rd),
   min_voltage |-> MinVoltage(BuildMotors(rd)),
   max_temp |-> MaxTemp(BuildMotors(rd)),
   timestamp |-> t]

InitialArmState == [connected |-> FALSE, bus |-> None, data |-> EmptyData]

NoOutcome == [a \in Arms |-> "none"]

\* Lines 40-44: the store at construction, no thread in a critical section of it.
InitStore ==
  /\ robot_state = [a \in Arms |-> InitialArmState]
  /\ robot_lock = NoThread
  /\ openBuses = [a \in Arms |-> {}]
  /\ now = 0
  /\ idx = [t \in Threads |-> 0]
  /\ reads = <<>>
  /\ resp = [t \in Getters |-> <<>>]
  /\ outcome = [t \in Connectors |-> NoOutcome]
  /\ tornDown = [t \in Reconnectors |-> {}]
  /\ published = [a \in Arms |-> EmptyData]
  /\ tickPre = [a \in Arms |-> EmptyData]
  /\ tickFailed = [a \in Arms |-> 0]

\* Lines 37-38: `camera = None`, camera_lock free; no stream has been requested.
InitCamera ==
  /\ camera = None
  /\ camera_lock = NoThread
  /\ captured = 0
  /\ frame = [s \in Streams |-> 0]
  /\ buffer = [s \in Streams |-> NoBytes]
  /\ out = [s \in Streams |-> <<>>]
  /\ clientGone = [s \in Streams |-> FALSE]

\* Line 506 and the defaults of line 482: find_available_port(5001), no port of the
\* range in use.
InitPort ==
  /\ occupied = {}
  /\ start_port = DefaultStartPort
  /\ max_attempts = MaxAttempts
  /\ port = None
  /\ bound = None

\* Every thread before it has run: the polling thread not started, no request made.
InitPc(main) ==
  [t \in Threads |->
     IF t = "main" THEN main ELSE IF t \in Pollers THEN "p_not_started" ELSE "idle"]

\* The telemetry side: the main thread is about to call connect_robots (line 499),
\* the ports of the arms being configured or not.
Init ==
  /\ ports \in [Arms -> BOOLEAN]
  /\ InitStore
  /\ InitCamera
  /\ InitPort
  /\ pc = InitPc("connect_robots")

\* The HTTP server accepts requests once the main thread has reached app.run.
Serving == pc["main"] = "m_serve"

\* Leaving the body of a for-loop over ArmOrder at index i: next arm, or `done`.
AfterArm(t, body, done) ==
  IF idx[t] < Len(ArmOrder)
  THEN /\ idx' = [idx EXCEPT ![t] = idx[t] + 1]
       /\ pc' = [pc EXCEPT ![t] = body]
  ELSE /\ idx' = [idx EXCEPT ![t] = 0]
       /\ pc' = [pc EXCEPT ![t] = done]

\* ------------------------------------------------------- connect_camera
\* Line 59: the main thread enters `with camera_lock:`.
ConnectCameraAcquire ==
  /\ pc["main"] = "connect_camera"
  /\ camera_lock = NoThread
  /\ camera_lock' = "main"
  /\ pc' = [pc EXCEPT !["main"] = "cc_connect"]
  /\ UNCHANGED <<robotVars, portVars, camera, captured, frame, buffer, out, clientGone>>

\* Lines 60-72: a camera left from an earlier call is disconnected (there is none at
\* startup); OpenCVCamera(...) and connect() succeed, or the except branch sets
\* camera = None.
ConnectCameraConnect ==
  /\ pc["main"] = "cc_connect"
  /\ \E ok \in BOOLEAN : camera' = IF ok THEN CameraObject ELSE None
  /\ pc' = [pc EXCEPT !["main"] = "cc_release"]
  /\ UNCHANGED <<robotVars, portVars, camera_lock, captured, frame, buffer, out, clientGone>>

\* A connect_camera whose lock is still held when connect_robots is called.
ConnectCameraKeepsLock ==
  /\ pc["main"] = "cc_release"
  /\ pc' = [pc EXCEPT !["main"] = "connect_robots"]
  /\ UNCHANGED <<robotVars, portVars, cameraVars>>

\* Leaving `with camera_lock:`; line 499 calls connect_robots next.
ConnectCameraRelease ==
  /\ pc["main"] = "cc_release"
  /\ camera_lock' = NoThread
  /\ pc' = [pc EXCEPT !["main"] = "connect_robots"]
  /\ UNCHANGED <<robotVars, portVars, camera, captured, frame, buffer, out, clientGone>>

\* ------------------------------------------------------- connect_robots
\* A connect loop that tries every arm, configured or not.
PortAlwaysConfigured(a) == TRUE

\* Line 79: `if port:`.
PortConfigured(a) == ports[a]

\* A handle id for the object create_bus returns: the lowest id no open handle of
\* the arm and no store entry uses.
FreeBusIds(a) == {h \in BusIds : h \notin openBuses[a] /\ h # robot_state[a].bus}
FreshBus(a) == CHOOSE h \in FreeBusIds(a) : \A g \in FreeBusIds(a) : h <= g

\* Lines 83-84.
ConnectSuccess(rs, a, h) == [rs EXCEPT ![a].bus = h, ![a].connected = TRUE]

\* Lines 86-88: the except branch.
ConnectFailure(rs, a) == [rs EXCEPT ![a].connected = FALSE]

\* Line 77: `with robot_lock:` entered by the caller of connect_robots.
ConnectRobotsAcquire(t) ==
  /\ pc[t] = "connect_robots"
  /\ robot_lock = NoThread
  /\ robot_lock' = t
  /\ pc' = [pc EXCEPT ![t] = "c_arm"]
  /\ idx' = [idx EXCEPT ![t] = 1]
  /\ outcome' = [outcome EXCEPT ![t] = NoOutcome]
  /\ tornDown' = [r \in Reconnectors |-> IF r = t THEN {} ELSE tornDown[r]]
  /\ UNCHANGED <<cameraVars, portVars, ports, robot_state, openBuses, now, reads, resp,
                 published, tickPre, tickFailed>>

\* Lines 78-88: one iteration of the loop; create_bus / bus.connect() may raise.
ConnectArm(t) ==
  /\ pc[t] = "c_arm"
  /\ LET a == ArmOrder[idx[t]] IN
       IF PortConfigured(a)
       THEN \/ /\ FreeBusIds(a) # {}
               /\ robot_state' = ConnectSuccess(robot_state, a, FreshBus(a))
               /\ openBuses' = [openBuses EXCEPT ![a] = @ \cup {FreshBus(a)}]
               /\ outcome' = [outcome EXCEPT ![t][a] = "ok"]
            \/ /\ robot_state' = ConnectFailure(robot_state, a)
               /\ outcome' = [outcome EXCEPT ![t][a] = "fail"]
               /\ UNCHANGED openBuses
       ELSE UNCHANGED <<robot_state, openBuses, outcome>>
  /\ AfterArm(t, "c_arm", "c_release")
  /\ UNCHANGED <<cameraVars, portVars, ports, robot_lock, now, reads, resp, tornDown,
                 published, tickPre, tickFailed>>

\* Leaving `with robot_lock:`; connect_robots returns to its caller.  In reconnect
\* the caller has only line 479 left, which returns ReconnectResponse and touches
\* no shared state: the request's thread is done.
ConnectRobotsRelease(t) ==
  /\ pc[t] = "c_release"
  /\ robot_lock' = NoThread
  /\ pc' = [pc EXCEPT ![t] = IF t = "main" THEN "m_start_poller" ELSE "done"]
  /\ outcome' = [outcome EXCEPT ![t] = NoOutcome]
  /\ UNCHANGED <<cameraVars, portVars, ports, robot_state, openBuses, now, idx, reads,
                 resp, tornDown, published, tickPre, tickFailed>>

\* Lines 502-503: the main thread starts the polling thread.
MainStartPoller ==
  /\ pc["main"] = "m_start_poller"
  /\ pc' = [pc EXCEPT !["main"] = "find_available_port", !["poller"] = "p_loop"]
  /\ UNCHANGED <<cameraVars, portVars, robotVars>>

\* -------------------------------------------------- find_available_port
\* A probe that takes every port for free.
BindAlwaysSucceeds(p) == TRUE

\* Lines 486-488: s.bind(('0.0.0.0', port)) returns unless the port is in use.
BindSucceeds(p) == p \notin occupied

\* Line 484: range(start_port, start_port + max_attempts).
ProbeRange == start_port .. (start_port + max_attempts - 1)

\* Lines 506 and 484: the call enters the for-loop with its first port; an empty
\* range falls through to the raise of line 491, which ends the main thread.
FindAvailablePort ==
  /\ pc["main"] = "find_available_port"
  /\ IF ProbeRange # {}
     THEN /\ port' = start_port
          /\ pc' = [pc EXCEPT !["main"] = "f_bind"]
     ELSE /\ port' = None
          /\ pc' = [pc EXCEPT !["main"] = "m_aborted"]
  /\ UNCHANGED <<cameraVars, robotVars, occupied, start_port, max_attempts, bound>>

\* Lines 485-491 and 510: one iteration of the loop.  A bind that succeeds returns
\* the port, which app.run is given; OSError goes on to the next port; the range
\* exhausted, RuntimeError propagates out of line 506.
FindPortBind ==
  /\ pc["main"] = "f_bind"
  /\ IF BindSucceeds(port)
     THEN /\ bound' = port
          /\ port' = None
          /\ pc' = [pc EXCEPT !["main"] = "m_serve"]
     ELSE IF port + 1 \in ProbeRange
     THEN /\ port' = port + 1
          /\ UNCHANGED <<bound, pc>>
     ELSE /\ port' = None
          /\ pc' = [pc EXCEPT !["main"] = "m_aborted"]
          /\ UNCHANGED bound
  /\ UNCHANGED <<cameraVars, robotVars, occupied, start_port, max_attempts>>

\* ------------------------------------------------------- read_robot_data
\* Lines 431-433 and 93: the next iteration of the polling loop enters
\* `with robot_lock:`; time has passed since the previous tick (time.sleep(0.1)).
PollAcquire ==
  /\ pc["poller"] = "p_loop"
  /\ robot_lock = NoThread
  /\ now < MaxClock
  /\ now' = now + 1
  /\ robot_lock' = "poller"
  /\ pc' = [pc EXCEPT !["poller"] = "p_guard"]
  /\ idx' = [idx EXCEPT !["poller"] = 1]
  /\ tickPre' = [a \in Arms |-> robot_state[a].data]
  /\ tickFailed' = [a \in Arms |-> 0]
  /\ UNCHANGED <<cameraVars, portVars, ports, robot_state, openBuses, reads, resp,
                 outcome, tornDown, published>>

\* Line 95: `if robot_state[arm]["connected"] and robot_state[arm]["bus"]:`.
ReadGuard(rs, a) == rs[a].connected /\ rs[a].bus # None

PollGuard ==
  /\ pc["poller"] = "p_guard"
  /\ pc' = [pc EXCEPT !["poller"] =
              IF ReadGuard(robot_state, ArmOrder[idx["poller"]]) THEN "p_read" ELSE "p_skip"]
  /\ reads' = <<>>
  /\ UNCHANGED <<cameraVars, portVars, ports, robot_state, robot_lock, openBuses, now,
                 idx, resp, outcome, tornDown, published, tickPre, tickFailed>>

\* The guard was false: nothing is done for this arm.
PollSkip ==
  /\ pc["poller"] = "p_skip"
  /\ AfterArm("poller", "p_guard", "p_release")
  /\ UNCHANGED <<cameraVars, portVars, ports, robot_state, robot_lock, openBuses, now,
                 reads, resp, outcome, tornDown, published, tickPre, tickFailed>>

\* A failure handler that also resets the arm's data.
ReadFailureClearsData(rs, a) == [rs EXCEPT ![a].connected = FALSE, ![a].data = EmptyData]

\* Lines 120-122: the except branch of a failed read.
ReadFailure(rs, a) == [rs EXCEPT ![a].connected = FALSE]

\* A poller that writes each register into the stored dict as soon as it is read.
AfterReadInPlace(rs, a, reg, result) ==
  IF reg = "Present_Voltage" /\ rs[a].data # EmptyData
  THEN [rs EXCEPT ![a].data.motors =
          [n \in MotorNameSet |-> [@[n] EXCEPT !.voltage = Div10(result[n])]]]
  ELSE rs

\* Lines 98-102, a sync_read that returned: its result is bound to a local name
\* (voltage, temp, load, current, position); robot_state is not touched.
AfterRead(rs, a, reg, result) == rs

\* What a sync_read, or the building of the dict from its results, can raise: a
\* communication error of the bus, an error of the serial port, a missing motor.
ReadExceptions == {"ConnectionError", "SerialException", "KeyError"}

\* A handler that catches the communication errors of the bus only.
CatchesConnectionErrorOnly(e) == e = "ConnectionError"

\* Line 120: `except Exception as e:` catches every exception the try body raises.
CaughtByExcept(e) == TRUE

\* Lines 98-102: the next of the five sync_read calls returns a result or raises.
\* An exception the except clause catches is handled inside the tick; one it does not
\* catch leaves the with-block, which releases robot_lock, and ends the thread.
PollRead ==
  /\ pc["poller"] = "p_read"
  /\ LET a == ArmOrder[idx["poller"]]
         reg == Registers[Len(reads) + 1] IN
       \/ /\ \E raw \in RawReadings(reg) :
               /\ reads' = Append(reads, SyncReadResult(raw))
               /\ robot_state' = AfterRead(robot_state, a, reg, SyncReadResult(raw))
          /\ pc' = [pc EXCEPT !["poller"] =
                      IF Len(reads) + 1 = Len(Registers) THEN "p_publish" ELSE "p_read"]
          /\ UNCHANGED <<idx, tickFailed, robot_lock>>
       \/ \E e \in ReadExceptions :
            IF CaughtByExcept(e)
            THEN /\ robot_state' = ReadFailure(robot_state, a)
                 /\ tickFailed' = [tickFailed EXCEPT ![a] = Len(reads) + 1]
                 /\ reads' = <<>>
                 /\ AfterArm("poller", "p_guard", "p_release")
                 /\ UNCHANGED robot_lock
            ELSE /\ robot_lock' = NoThread
                 /\ pc' = [pc EXCEPT !["poller"] = "p_dead"]
                 /\ idx' = [idx EXCEPT !["poller"] = 0]
                 /\ reads' = <<>>
                 /\ tickFailed' = [a2 \in Arms |-> 0]
                 /\ UNCHANGED robot_state
  /\ UNCHANGED <<cameraVars, portVars, ports, openBuses, now, resp, outcome, tornDown,
                 published, tickPre>>

\* Lines 104-119: robot_state[arm]["data"] is rebound to the freshly built dict.
Publish(rs, a, rd, t) == [rs EXCEPT ![a].data = Snapshot(rd, t)]

PollPublish ==
  /\ pc["poller"] = "p_publish"
  /\ LET a == ArmOrder[idx["poller"]] IN
       /\ robot_state' = Publish(robot_state, a, reads, now)
       /\ published' = [published EXCEPT ![a] = Snapshot(reads, now)]
  /\ reads' = <<>>
  /\ AfterArm("poller", "p_guard", "p_release")
  /\ UNCHANGED <<cameraVars, portVars, ports, robot_lock, openBuses, now, resp, outcome,
                 tornDown, tickPre, tickFailed>>

\* The poller leaves `with robot_lock:`; read_robot_data returns and the polling
\* loop sleeps (line 433) before its next iteration.
PollRelease ==
  /\ pc["poller"] = "p_release"
  /\ robot_lock' = NoThread
  /\ pc' = [pc EXCEPT !["poller"] = "p_loop"]
  /\ tickPre' = [a \in Arms |-> EmptyData]
  /\ tickFailed' = [a \in Arms |-> 0]
  /\ UNCHANGED <<cameraVars, portVars, ports, robot_state, openBuses, now, idx, reads,
                 resp, outcome, tornDown, published>>

\* ------------------------------------------------------ GET /robot_data
\* The four values the handler reads, in the order the dict literal evaluates them.
GetFields ==
  <<<<"leader", "connected">>, <<"leader", "data">>, <<"follower", "connected">>,
    <<"follower", "data">>>>

\* A handler that reads robot_state without entering `with robot_lock:`.
GetEnterNoLock(t) ==
  /\ Serving
  /\ pc[t] = "idle"
  /\ pc' = [pc EXCEPT ![t] = "g_read"]
  /\ resp' = [resp EXCEPT ![t] = <<>>]
  /\ UNCHANGED <<cameraVars, portVars, ports, robot_state, robot_lock, openBuses, now,
                 idx, reads, outcome, tornDown, published, tickPre, tickFailed>>

\* Line 451: the handler enters `with robot_lock:`.
GetAcquire(t) ==
  /\ Serving
  /\ pc[t] = "idle"
  /\ robot_lock = NoThread
  /\ robot_lock' = t
  /\ pc' = [pc EXCEPT ![t] = "g_read"]
  /\ resp' = [resp EXCEPT ![t] = <<>>]
  /\ UNCHANGED <<cameraVars, portVars, ports, robot_state, openBuses, now, idx, reads,
                 outcome, tornDown, published, tickPre, tickFailed>>

\* Lines 453-460: the next of the four lookups in robot_state.
GetRead(t) ==
  /\ pc[t] = "g_read"
  /\ LET f == GetFields[Len(resp[t]) + 1]
         v == IF f[2] = "connected" THEN robot_state[f[1]].connected
              ELSE robot_state[f[1]].data IN
       resp' = [resp EXCEPT ![t] = Append(@, v)]
  /\ pc' = [pc EXCEPT ![t] =
              IF Len(resp[t]) + 1 = Len(GetFields) THEN "g_return" ELSE "g_read"]
  /\ UNCHANGED <<cameraVars, portVars, ports, robot_state, robot_lock, openBuses, now,
                 idx, reads, outcome, tornDown, published, tickPre, tickFailed>>

\* The JSON object the handler returns, from the four values read.
RobotDataResponse(r) ==
  [leader |-> [connected |-> r[1], data |-> r[2]],
   follower |-> [connected |-> r[3], data |-> r[4]]]

\* Line 452: jsonify has built the response; the lock is released and it is returned.
GetReturn(t) ==
  /\ pc[t] = "g_return"
  /\ robot_lock' = NoThread
  /\ pc' = [pc EXCEPT ![t] = "idle"]
  /\ resp' = [resp EXCEPT ![t] = <<>>]
  /\ UNCHANGED <<cameraVars, portVars, ports, robot_state, openBuses, now, idx, reads,
                 outcome, tornDown, published, tickPre, tickFailed>>

\* ------------------------------------------------------ POST /reconnect
\* Line 467: the handler enters `with robot_lock:`.
ReconnectAcquire(t) ==
  /\ Serving
  /\ pc[t] = "idle"
  /\ robot_lock = NoThread
  /\ robot_lock' = t
  /\ pc' = [pc EXCEPT ![t] = "r_arm"]
  /\ idx' = [idx EXCEPT ![t] = 1]
  /\ tornDown' = [tornDown EXCEPT ![t] = {}]
  /\ UNCHANGED <<cameraVars, portVars, ports, robot_state, openBuses, now, reads, resp,
                 outcome, published, tickPre, tickFailed>>

\* Line 469: `if robot_state[arm]["bus"]:`.
ReconnectArm(t) ==
  /\ pc[t] = "r_arm"
  /\ IF robot_state[ArmOrder[idx[t]]].bus # None
     THEN /\ pc' = [pc EXCEPT ![t] = "r_disconnect"]
          /\ UNCHANGED idx
     ELSE AfterArm(t, "r_arm", "r_release")
  /\ UNCHANGED <<cameraVars, portVars, ports, robot_state, robot_lock, openBuses, now,
                 reads, resp, outcome, tornDown, published, tickPre, tickFailed>>

\* A teardown that drops the handle without calling disconnect().
DisconnectNotCalled(ob, a, h) == ob

\* Lines 470-473: disconnect() is called on the stored handle; whether it raises
\* or not, the handler goes on.
Disconnect(ob, a, h) == [ob EXCEPT ![a] = @ \ {h}]

ReconnectDisconnect(t) ==
  /\ pc[t] = "r_disconnect"
  /\ LET a == ArmOrder[idx[t]] IN
       \E raised \in BOOLEAN :
         openBuses' = Disconnect(openBuses, a, robot_state[a].bus)
  /\ pc' = [pc EXCEPT ![t] = "r_clear"]
  /\ UNCHANGED <<cameraVars, portVars, ports, robot_state, robot_lock, now, idx, reads,
                 resp, outcome, tornDown, published, tickPre, tickFailed>>

\* A teardown that resets the flag but leaves the closed handle installed.
TeardownKeepsBus(rs, a) == [rs EXCEPT ![a].connected = FALSE]

\* A teardown that resets nothing after disconnect().
TeardownClearsNothing(rs, a) == rs

\* A teardown that resets the whole entry of the arm, its data included.
TeardownResetsArm(rs, a) == [rs EXCEPT ![a] = InitialArmState]

\* A teardown that removes the handle and leaves the flag as it is.
TeardownKeepsFlag(rs, a) == [rs EXCEPT ![a].bus = None]

\* Lines 474-475.
TeardownClear(rs, a) == [rs EXCEPT ![a].bus = None, ![a].connected = FALSE]

ReconnectClear(t) ==
  /\ pc[t] = "r_clear"
  /\ LET a == ArmOrder[idx[t]] IN
       /\ robot_state' = TeardownClear(robot_state, a)
       /\ tornDown' = [tornDown EXCEPT ![t] = @ \cup {a}]
  /\ AfterArm(t, "r_arm", "r_release")
  /\ UNCHANGED <<cameraVars, portVars, ports, robot_lock, openBuses, now, reads, resp,
                 outcome, published, tickPre, tickFailed>>

\* The teardown's `with robot_lock:` ends; line 478 calls connect_robots next.
ReconnectRelease(t) ==
  /\ pc[t] = "r_release"
  /\ robot_lock' = NoThread
  /\ pc' = [pc EXCEPT ![t] = "connect_robots"]
  /\ UNCHANGED <<cameraVars, portVars, ports, robot_state, openBuses, now, idx, reads,
                 resp, outcome, tornDown, published, tickPre, tickFailed>>

\* Line 479: the status object returned, whatever connect_robots did.
ReconnectResponse == [status |-> "ok"]

\* ------------------------------------- GET /video_feed: generate_frames
\* Lines 441-446: the handler returns Response(generate_frames(), ...); the server
\* thread of the request starts to iterate the generator.
VideoFeed(s) ==
  /\ Serving
  /\ pc[s] = "idle"
  /\ pc' = [pc EXCEPT ![s] = "v_loop"]
  /\ UNCHANGED <<robotVars, portVars, cameraVars>>

\* A loop that reads the camera without taking camera_lock.
StreamEnterNoLock(s) ==
  /\ pc[s] = "v_loop"
  /\ pc' = [pc EXCEPT ![s] = "v_check"]
  /\ UNCHANGED <<robotVars, portVars, cameraVars>>

\* Lines 405-406: the next iteration of `while True:` enters `with camera_lock:`.
StreamAcquire(s) ==
  /\ pc[s] = "v_loop"
  /\ camera_lock = NoThread
  /\ camera_lock' = s
  /\ pc' = [pc EXCEPT ![s] = "v_check"]
  /\ UNCHANGED <<robotVars, portVars, camera, captured, frame, buffer, out, clientGone>>

\* Line 407: `if camera is None:`.
StreamCheck(s) ==
  /\ pc[s] = "v_check"
  /\ pc' = [pc EXCEPT ![s] = IF camera = None THEN "v_absent_sleep" ELSE "v_read"]
  /\ UNCHANGED <<robotVars, portVars, cameraVars>>

\* Lines 408-409 and 417-418: time.sleep(0.1) returns inside the with-block;
\* `continue` leaves the block, which releases camera_lock.
StreamSleep(s) ==
  /\ pc[s] \in {"v_absent_sleep", "v_failed_sleep"}
  /\ camera_lock' = NoThread
  /\ pc' = [pc EXCEPT ![s] = "v_loop"]
  /\ UNCHANGED <<robotVars, portVars, camera, captured, frame, buffer, out, clientGone>>

\* A camera whose read can return any frame captured so far, or a newer one.
AnyCapturedFrame == {n \in 1..(captured + 1) : n <= MaxFrames}

\* Frames async_read can return: the latest one captured, or a newer one.
NextFrames == {n \in {captured, captured + 1} : n >= 1 /\ n <= MaxFrames}

\* A loop whose yield is inside the with-block: the read returns and camera_lock
\* stays held through the encoding and the yield.
StreamReadReturnsInsideLock(s, n) ==
  /\ captured' = n
  /\ frame' = [frame EXCEPT ![s] = n]
  /\ pc' = [pc EXCEPT ![s] = "v_encode"]
  /\ UNCHANGED camera_lock

\* Lines 411-413: async_read and cvtColor return; frame_bgr is bound to the frame
\* and the with-block is left, which releases camera_lock.
StreamReadReturns(s, n) ==
  /\ captured' = n
  /\ frame' = [frame EXCEPT ![s] = n]
  /\ camera_lock' = NoThread
  /\ pc' = [pc EXCEPT ![s] = "v_encode"]

\* A handler of the exception that falls through to the encoding of frame_bgr.
StreamReadRaisesThenEncodes(s) ==
  /\ camera_lock' = NoThread
  /\ pc' = [pc EXCEPT ![s] = "v_encode"]
  /\ UNCHANGED <<captured, frame>>

\* Lines 415-416: async_read (timeout, device error) or cvtColor raises; the handler
\* prints the error and is about to sleep, camera_lock still held.
StreamReadRaises(s) ==
  /\ pc' = [pc EXCEPT ![s] = "v_failed_sleep"]
  /\ UNCHANGED <<camera_lock, captured, frame>>

StreamRead(s) ==
  /\ pc[s] = "v_read"
  /\ \/ \E n \in NextFrames : StreamReadReturns(s, n)
     \/ StreamReadRaises(s)
  /\ UNCHANGED <<robotVars, portVars, camera, buffer, out, clientGone>>

\* Line 421, cv2.imencode('.jpg', frame_bgr, ...) with ret true: the bytes of a JPEG
\* image (they start with the JPEG magic bytes) of the frame.
JpegOf(n) == [magic |-> "FFD8", frame |-> n]

\* Lines 421-422 with ret true: buffer holds the encoding and the loop goes on to
\* the yield.
StreamEncodeReturns(s) ==
  /\ buffer' = [buffer EXCEPT ![s] = JpegOf(frame[s])]
  /\ pc' = [pc EXCEPT ![s] = "v_yield"]
  /\ UNCHANGED frame

\* A loop that does not test ret: it yields whatever imencode left in buffer.
StreamEncodeFailsThenYields(s) ==
  /\ buffer' = [buffer EXCEPT ![s] = NoBytes]
  /\ pc' = [pc EXCEPT ![s] = "v_yield"]
  /\ UNCHANGED frame

\* Lines 422-423 with ret false: `if not ret: continue`.
StreamEncodeFails(s) ==
  /\ buffer' = [buffer EXCEPT ![s] = NoBytes]
  /\ pc' = [pc EXCEPT ![s] = "v_loop"]
  /\ frame' = [frame EXCEPT ![s] = 0]

\* Lines 421-423: cv2.imencode returns (ret, buffer).
StreamEncode(s) ==
  /\ pc[s] = "v_encode"
  /\ \/ StreamEncodeReturns(s)
     \/ StreamEncodeFails(s)
  /\ UNCHANGED <<robotVars, portVars, camera, camera_lock, captured, out, clientGone>>

\* Lines 425-426: the generator yields the part, whose body is buffer.tobytes(), and
\* the server writes it to the socket.  The client gone, the write fails and the
\* server closes the generator, which ends the loop at the yield; otherwise the
\* client receives the part and the loop goes on.  (frame_bgr and buffer are rebound
\* before their next use: they are forgotten here.)
StreamYield(s) ==
  /\ pc[s] = "v_yield"
  /\ IF clientGone[s]
     THEN /\ pc' = [pc EXCEPT ![s] = "v_closed"]
          /\ UNCHANGED out
     ELSE /\ Len(out[s]) < MaxParts
          /\ out' = [out EXCEPT ![s] = Append(@, buffer[s])]
          /\ pc' = [pc EXCEPT ![s] = "v_loop"]
  /\ frame' = [frame EXCEPT ![s] = 0]
  /\ buffer' = [buffer EXCEPT ![s] = NoBytes]
  /\ UNCHANGED <<robotVars, portVars, camera, camera_lock, captured, clientGone>>

\* The client of a stream closes its connection.
ClientDisconnect(s) ==
  /\ pc[s] \notin {"idle", "v_closed"}
  /\ ~clientGone[s]
  /\ clientGone' = [clientGone EXCEPT ![s] = TRUE]
  /\ UNCHANGED <<robotVars, portVars, pc, camera, camera_lock, captured, frame, buffer,
                 out>>

\* ------------------------------------------------------- specifications
Next ==
  \/ \E t \in Connectors : ConnectRobotsAcquire(t)
  \/ \E t \in Connectors : ConnectArm(t)
  \/ \E t \in Connectors : ConnectRobotsRelease(t)
  \/ MainStartPoller
  \/ FindAvailablePort
  \/ FindPortBind
  \/ PollAcquire
  \/ PollGuard
  \/ PollSkip
  \/ PollRead
  \/ PollPublish
  \/ PollRelease
  \/ \E t \in Getters : GetAcquire(t)
  \/ \E t \in Getters : GetRead(t)
  \/ \E t \in Getters : GetReturn(t)
  \/ \E t \in Reconnectors : ReconnectAcquire(t)
  \/ \E t \in Reconnectors : ReconnectArm(t)
  \/ \E t \in Reconnectors : ReconnectDisconnect(t)
  \/ \E t \in Reconnectors : ReconnectClear(t)
  \/ \E t \in Reconnectors : ReconnectRelease(t)

Spec == Init /\ [][Next]_vars

\* The same program when its client sends /reconnect requests one after the other:
\* a request starts only when no other /reconnect is being served.
ReconnectAcquireSeq(t) ==
  /\ \A u \in Reconnectors \ {t} : pc[u] \in {"idle", "done"}
  /\ ReconnectAcquire(t)

NextSeq ==
  \/ \E t \in Connectors : ConnectRobotsAcquire(t)
  \/ \E t \in Connectors : ConnectArm(t)
  \/ \E t \in Connectors : ConnectRobotsRelease(t)
  \/ MainStartPoller
  \/ FindAvailablePort
  \/ FindPortBind
  \/ PollAcquire
  \/ PollGuard
  \/ PollSkip
  \/ PollRead
  \/ PollPublish
  \/ PollRelease
  \/ \E t \in Getters : GetAcquire(t)
  \/ \E t \in Getters : GetRead(t)
  \/ \E t \in Getters : GetReturn(t)
  \/ \E t \in Reconnectors : ReconnectAcquireSeq(t)
  \/ \E t \in Reconnectors : ReconnectArm(t)
  \/ \E t \in Reconnectors : ReconnectDisconnect(t)
  \/ \E t \in Reconnectors : ReconnectClear(t)
  \/ \E t \in Reconnectors : ReconnectRelease(t)

SpecSeq == Init /\ [][NextSeq]_vars

\* The camera side from the start of the program (line 496), no arm configured:
\* the main thread's startup and the /video_feed streams.  The threads of the
\* telemetry side never read or write the camera, its lock or a stream.
InitCam ==
  /\ ports = [a \in Arms |-> FALSE]
  /\ InitStore
  /\ InitCamera
  /\ InitPort
  /\ pc = InitPc("connect_camera")

MainStartup ==
  \/ ConnectCameraAcquire
  \/ ConnectCameraConnect
  \/ ConnectCameraRelease
  \/ ConnectRobotsAcquire("main")
  \/ ConnectArm("main")
  \/ ConnectRobotsRelease("main")
  \/ MainStartPoller
  \/ FindAvailablePort
  \/ FindPortBind

StreamStep(s) ==
  \/ StreamAcquire(s)
  \/ StreamCheck(s)
  \/ StreamSleep(s)
  \/ StreamRead(s)
  \/ StreamEncode(s)
  \/ StreamYield(s)

NextCamera ==
  \/ MainStartup
  \/ \E s \in Streams : VideoFeed(s)
  \/ \E s \in Streams : StreamStep(s)
  \/ \E s \in Streams : ClientDisconnect(s)

SpecCamera == InitCam /\ [][NextCamera]_vars

\* The operating system schedules every thread that can run: the main thread and
\* the thread of each stream keep taking their steps; a stream that finds
\* camera_lock free again and again gets it, and the JPEG encoding of frames that
\* were read does not fail for ever.  Nothing is assumed of the camera.
SpecCameraFair ==
  /\ SpecCamera
  /\ WF_vars(MainStartup)
  /\ \A s \in Streams :
       /\ WF_vars(StreamStep(s))
       /\ SF_vars(StreamAcquire(s))
       /\ SF_vars(StreamEncode(s) /\ pc'[s] = "v_yield")

\* find_available_port on its own: the main thread calls it (line 506), with any
\* set of ports in use, a start port and a number of attempts.
StartPorts == {DefaultStartPort, DefaultStartPort + 1}
PortUniverse == DefaultStartPort .. (DefaultStartPort + MaxAttempts + 1)

InitFindPort ==
  /\ ports = [a \in Arms |-> FALSE]
  /\ InitStore
  /\ InitCamera
  /\ occupied \in SUBSET PortUniverse
  /\ start_port \in StartPorts
  /\ max_attempts \in 0..MaxAttempts
  /\ port = None
  /\ bound = None
  /\ pc = [InitPc("find_available_port") EXCEPT !["poller"] = "p_loop"]

NextPort ==
  \/ FindAvailablePort
  \/ FindPortBind

SpecPort == InitFindPort /\ [][NextPort]_vars

\* The whole program from its start (line 496), both sides together: the main
\* thread, the poller, and one request of each kind, the follower arm not configured.
InitAll ==
  /\ ports \in {p \in [Arms -> BOOLEAN] : ~p["follower"]}
  /\ InitStore
  /\ InitCamera
  /\ InitPort
  /\ pc = InitPc("connect_camera")

NextAll ==
  \/ ConnectCameraAcquire
  \/ ConnectCameraConnect
  \/ ConnectCameraRelease
  \/ ConnectRobotsAcquire("main")
  \/ ConnectArm("main")
  \/ ConnectRobotsRelease("main")
  \/ ConnectRobotsAcquire("r1")
  \/ ConnectArm("r1")
  \/ ConnectRobotsRelease("r1")
  \/ MainStartPoller
  \/ FindAvailablePort
  \/ FindPortBind
  \/ PollAcquire
  \/ PollGuard
  \/ PollSkip
  \/ PollRead
  \/ PollPublish
  \/ PollRelease
  \/ GetAcquire("g1")
  \/ GetRead("g1")
  \/ GetReturn("g1")
  \/ ReconnectAcquire("r1")
  \/ ReconnectArm("r1")
  \/ ReconnectDisconnect("r1")
  \/ ReconnectClear("r1")
  \/ ReconnectRelease("r1")
  \/ VideoFeed("v1")
  \/ StreamStep("v1")
  \/ ClientDisconnect("v1")

SpecAll == InitAll /\ [][NextAll]_vars

\* ------------------------------------------------------------ properties
PollerArm == ArmOrder[idx["poller"]]
Observers == Getters \cup Pollers

\* C1: when one of the five register reads of an arm fails during a tick, whichever
\* it is, then for the rest of that tick and at its end the arm's connected flag is
\* false and its data is the data the arm had when the tick began.
C1_FailedReadKeepsData ==
  \A a \in Arms :
    tickFailed[a] # 0 =>
      /\ ~robot_state[a].connected
      /\ robot_state[a].data = tickPre[a]

\* A tick ends in which the fifth read of an arm failed after four had succeeded,
\* the arm holding a snapshot from an earlier tick.
C1_Witness ==
  /\ pc["poller"] = "p_release"
  /\ \E a \in Arms : tickFailed[a] = Len(Registers) /\ tickPre[a] # EmptyData

\* C2: after a read failure the following ticks attempt the read on the arm again:
\* as long as no /reconnect has been issued, the poller skips an arm only when the
\* arm has no bus handle.
C2_FailedArmIsReadAgain ==
  (pc["poller"] = "p_skip" /\ \A r \in Reconnectors : pc[r] = "idle") =>
    robot_state[PollerArm].bus = None

\* C3: the data a /robot_data response carries for an arm is exactly the snapshot of
\* one publish event, the arm's latest one (empty before the first).
C3_ResponseIsOnePublishedSnapshot ==
  \A g \in Getters :
    pc[g] = "g_return" =>
      \A a \in Arms : RobotDataResponse(resp[g])[a].data = published[a]

\* A response is complete that carries a snapshot published by the second tick.
C3_Witness ==
  \E g \in Getters :
    /\ pc[g] = "g_return"
    /\ RobotDataResponse(resp[g]).leader.data # EmptyData
    /\ RobotDataResponse(resp[g]).leader.data.timestamp > 1

\* C4: whenever an arm's connected flag is true, its published snapshot has
\* min_voltage = min of its motors' voltages and max_temp = max of their temps.
C4_ConnectedHasMinMax ==
  \A a \in Arms :
    robot_state[a].connected =>
      /\ robot_state[a].data # EmptyData
      /\ robot_state[a].data.min_voltage = MinVoltage(robot_state[a].data.motors)
      /\ robot_state[a].data.max_temp = MaxTemp(robot_state[a].data.motors)

\* C5 (as claimed): a /robot_data handler or a poller tick never observes an arm
\* whose old handle a reconnect in progress has torn down and not yet replaced.
C5_ReconnectAtomicToReaders ==
  \A o \in Observers :
    robot_lock = o =>
      \A r \in Reconnectors : \A a \in Arms :
        ~(pc[r] = "connect_robots" /\ a \in tornDown[r] /\ robot_state[a].bus = None)

\* C5 (amended): each of the two phases of a reconnect is atomic to the readers.  A
\* reader never observes a reconnect inside its teardown or inside connect_robots,
\* so never a handle on which disconnect has been called still installed; it may
\* observe the state between the phases.
C5_ReconnectPhasesAtomic ==
  \A o \in Observers :
    robot_lock = o =>
      /\ \A r \in Reconnectors : pc[r] \in {"idle", "connect_robots", "done"}
      /\ \A a \in Arms :
           robot_state[a].bus # None => robot_state[a].bus \in openBuses[a]

\* A reader holds the lock between the two phases of a reconnect that tore down an
\* arm's handle, and finds the arm without a handle.
C5_Witness ==
  \E o \in Observers :
    /\ robot_lock = o
    /\ \E r \in Reconnectors : \E a \in Arms :
         pc[r] = "connect_robots" /\ a \in tornDown[r] /\ robot_state[a].bus = None

\* C6: the status /reconnect returns reports success only if every configured arm
\* was connected by that call.
C6_StatusReportsFailure ==
  \A r \in Reconnectors :
    (pc[r] = "c_release" /\ ReconnectResponse.status = "ok") =>
      \A a \in Arms : PortConfigured(a) => outcome[r][a] = "ok"

\* C7: with /reconnect requests running concurrently, every bus handle of an arm
\* that is connected and on which disconnect has not been called is the one in the
\* store: at most one per arm.
C7_AtMostOneOpenHandle ==
  \A a \in Arms :
    /\ openBuses[a] \subseteq {robot_state[a].bus}
    /\ Cardinality(openBuses[a]) <= 1

\* C8: the poller issues register reads only on a handle that is present in the
\* store and on which disconnect has not been called.
C8_PollerReadsOpenHandleOnly ==
  pc["poller"] \in {"p_read", "p_publish"} =>
    /\ robot_state[PollerArm].bus # None
    /\ robot_state[PollerArm].bus \in openBuses[PollerArm]

\* The poller skips a configured arm whose handle a reconnect has torn down and
\* not yet replaced.
C8_Witness ==
  /\ pc["poller"] = "p_skip"
  /\ PortConfigured(PollerArm)
  /\ robot_state[PollerArm].bus = None
  /\ \E r \in Reconnectors : pc[r] = "connect_robots" /\ PollerArm \in tornDown[r]

\* C9: an arm without a configured port is never connected, never has a handle, is
\* never read by the poller, and no connect_robots call attempts (or fails) a
\* connect for it.
C9_UnconfiguredArmStaysDisconnected ==
  \A a \in Arms :
    ~ports[a] =>
      /\ ~robot_state[a].connected
      /\ robot_state[a].bus = None
      /\ openBuses[a] = {}
      /\ (pc["poller"] \in {"p_read", "p_publish"} => PollerArm # a)
      /\ \A t \in Connectors : outcome[t][a] = "none"

\* Both /reconnect requests have been served while an arm has no port.
C9_Witness ==
  /\ \E a \in Arms : ~ports[a]
  /\ \A r \in Reconnectors : pc[r] = "done"

\* C10: with /reconnect calls made one after the other, no handle stays open outside
\* the store; when a call's teardown ends every handle that was in the store has had
\* disconnect called and no arm holds a handle; when its connect_robots ends each
\* configured arm is connected, with the new handle as its only open one, exactly if
\* this call's connect attempt succeeded.
C10_SequentialReconnectIsRepeatable ==
  /\ \A a \in Arms : openBuses[a] \subseteq {robot_state[a].bus}
  /\ \A r \in Reconnectors :
       pc[r] = "r_release" =>
         \A a \in Arms :
           /\ robot_state[a].bus = None
           /\ ~robot_state[a].connected
           /\ openBuses[a] = {}
  /\ \A r \in Reconnectors :
       pc[r] = "c_release" =>
         \A a \in Arms :
           PortConfigured(a) =>
             /\ robot_state[a].connected = (outcome[r][a] = "ok")
             /\ (robot_state[a].bus # None) = (outcome[r][a] = "ok")
             /\ openBuses[a] = IF outcome[r][a] = "ok" THEN {robot_state[a].bus} ELSE {}

\* The second of two /reconnect calls ends its connect_robots, one arm connected
\* and the other not.
C10_Witness ==
  /\ pc["r1"] = "done"
  /\ pc["r2"] = "c_release"
  /\ outcome["r2"]["leader"] = "ok"
  /\ outcome["r2"]["follower"] = "fail"

\* Positions at which a thread waits to enter `with robot_lock:` / `with camera_lock:`.
WaitsForRobotLock(t) ==
  \/ pc[t] = "connect_robots"
  \/ t \in Pollers /\ pc[t] = "p_loop"
  \/ t \in Getters \cup Reconnectors /\ pc[t] = "idle"
WaitsForCameraLock(t) == pc[t] \in {"connect_camera", "v_loop"}

\* C11: robot_lock and camera_lock are independent.  A /video_feed stream never
\* holds robot_lock; the poller, /robot_data and /reconnect never hold camera_lock;
\* no thread holds both locks, and no thread holding one of them waits for the other
\* (so no interleaving of them can deadlock, and a stream never keeps a /robot_data
\* request waiting).
C11_LocksAreIndependent ==
  /\ robot_lock \notin Streams
  /\ camera_lock \notin Pollers \cup Getters \cup Reconnectors
  /\ \A t \in Threads :
       /\ ~(robot_lock = t /\ camera_lock = t)
       /\ camera_lock = t => ~WaitsForRobotLock(t)
       /\ robot_lock = t => ~WaitsForCameraLock(t)

\* A stream is inside its critical section of camera_lock while a /robot_data
\* handler is inside its critical section of robot_lock.
C11_Witness ==
  /\ camera_lock \in Streams
  /\ robot_lock \in Getters

\* Positions at which a thread is inside a call on a bus handle (create_bus /
\* bus.connect, bus.disconnect, bus.sync_read), inside camera.async_read, or inside
\* time.sleep.
AtBusCall(t) ==
  \/ pc[t] = "c_arm" /\ PortConfigured(ArmOrder[idx[t]])
  \/ pc[t] = "r_disconnect"
  \/ pc[t] = "p_read"
AtCameraRead(t) == pc[t] = "v_read"
AtSleep(t) == pc[t] \in {"v_absent_sleep", "v_failed_sleep"}

\* C12: the locks are held only for copying.  No thread holds robot_lock or
\* camera_lock while a hardware call (register read, bus connect or disconnect,
\* camera frame read) or a sleep is in progress.
C12_NoLockAcrossHardwareOrSleep ==
  \A t \in Threads :
    (AtBusCall(t) \/ AtCameraRead(t) \/ AtSleep(t)) =>
      (robot_lock # t /\ camera_lock # t)

C14_DisconnectEndsStream ==
  \A s \in Streams : clientGone[s] ~> (pc[s] = "v_closed" /\ camera_lock # s)

\* C15: after a hard failure of a camera read the camera is marked absent (and a
\* connect is retried after the pause): a stream pausing after a read that raised
\* finds the camera handle absent.
C15_FailedReadMarksCameraAbsent ==
  \A s \in Streams : pc[s] = "v_failed_sleep" => camera = None

\* Positions of the poller inside the `with robot_lock:` block of a tick.
InTick == {"p_guard", "p_skip", "p_read", "p_publish", "p_release"}

\* C16: the polling thread never terminates and never leaves robot_lock held.  It
\* holds the lock exactly while it is inside a tick; a failed read is caught inside
\* the tick, which goes on with the arm marked connected=false; and between ticks,
\* the lock free, the next tick can start (as long as the clock is below MaxClock).
C16_PollerSurvivesFailures ==
  /\ pc["poller"] # "p_dead"
  /\ (robot_lock = "poller") = (pc["poller"] \in InTick)
  /\ \A a \in Arms :
       tickFailed[a] # 0 => (pc["poller"] \in InTick /\ ~robot_state[a].connected)
  /\ (pc["poller"] = "p_loop" /\ robot_lock = NoThread /\ now < MaxClock) =>
       ENABLED PollAcquire

\* The second tick is running after a read of a configured arm failed in the first
\* one (no /reconnect issued: the arm's handle is installed, its flag false).
C16_Witness ==
  /\ now = 2
  /\ pc["poller"] \in InTick
  /\ \A a \in Arms : tickFailed[a] = 0
  /\ \A r \in Reconnectors : pc[r] = "idle"
  /\ \E a \in Arms : robot_state[a].bus # None /\ ~robot_state[a].connected

\* C17: in every snapshot a successful tick publishes, min_voltage is the minimum
\* of the voltages of the six motors of that same snapshot and max_temp the maximum
\* of their temperatures.
C17_SnapshotMinMax ==
  \A a \in Arms :
    \A d \in {robot_state[a].data, published[a]} \ {EmptyData} :
      /\ DOMAIN d.motors = MotorNameSet
      /\ \E n \in MotorNameSet : d.min_voltage = d.motors[n].voltage
      /\ \A n \in MotorNameSet : VoltLeq(d.min_voltage, d.motors[n].voltage)
      /\ \E n \in MotorNameSet : d.max_temp = d.motors[n].temp
      /\ \A n \in MotorNameSet : d.motors[n].temp <= d.max_temp

\* The poller has just published, in its second tick, a snapshot whose lowest
\* voltage is not the first motor's and whose highest temperature is 45.
C17_Witness ==
  /\ pc["poller"] \in InTick
  /\ \E a \in Arms :
       /\ robot_state[a].data # EmptyData
       /\ robot_state[a].data.timestamp = 2
       /\ robot_state[a].data.timestamp = now
       /\ robot_state[a].data.max_temp = 45
       /\ robot_state[a].data.min_voltage # robot_state[a].data.motors[MOTOR_NAMES[1]].voltage

\* The step of the poller that publishes the snapshot of the arm it has read.
PublishStep == pc["poller"] = "p_publish" /\ pc'["poller"] # "p_publish"

\* C18 (as claimed): the published voltage of every motor and min_voltage are the
\* raw register readings, integers in tenths of a volt: a tick that read
\* [72, 74, 70, 75, 73, 71] publishes min_voltage = 70.
C18_VoltageIsRawTenths ==
  [][PublishStep =>
       LET d == robot_state'[PollerArm].data
           raw == reads[1] IN
         /\ \A n \in MotorNameSet :
              d.motors[n].voltage.volts = raw[n] /\ d.motors[n].voltage.tenths = 0
         /\ \E n \in MotorNameSet :
              d.min_voltage.volts = raw[n] /\ d.min_voltage.tenths = 0
         /\ (raw = SyncReadResult(<<72, 74, 70, 75, 73, 71>>) =>
               (d.min_voltage.volts = 70 /\ d.min_voltage.tenths = 0))]_vars

\* C18 (amended): the published voltage of every motor and min_voltage are the raw
\* readings divided by ten, in volts: ten times the published value is the raw
\* reading, and a tick that read [72, 74, 70, 75, 73, 71] publishes 7.0.
C18_VoltageIsRawOverTen ==
  [][PublishStep =>
       LET d == robot_state'[PollerArm].data
           raw == reads[1] IN
         /\ \A n \in MotorNameSet :
              /\ d.motors[n].voltage.tenths \in 0..9
              /\ 10 * d.motors[n].voltage.volts + d.motors[n].voltage.tenths = raw[n]
         /\ d.min_voltage.tenths \in 0..9
         /\ \E n \in MotorNameSet :
              10 * d.min_voltage.volts + d.min_voltage.tenths = raw[n]
         /\ \A n \in MotorNameSet :
              10 * d.min_voltage.volts + d.min_voltage.tenths <= raw[n]
         /\ (raw = SyncReadResult(<<72, 74, 70, 75, 73, 71>>) =>
               (d.min_voltage.volts = 7 /\ d.min_voltage.tenths = 0))]_vars

\* The poller has just published the snapshot of a tick that read the voltages
\* [72, 74, 70, 75, 73, 71]: the third motor's is 7.0 and so is min_voltage.
C18_Witness ==
  /\ pc["poller"] \in InTick
  /\ \E a \in Arms :
       /\ published[a] # EmptyData
       /\ published[a].timestamp = now
       /\ published[a].motors[MOTOR_NAMES[1]].voltage = [volts |-> 7, tenths |-> 2]
       /\ published[a].motors[MOTOR_NAMES[3]].voltage = [volts |-> 7, tenths |-> 0]
       /\ published[a].min_voltage = [volts |-> 7, tenths |-> 0]

\* C19: find_available_port(start_port, max_attempts) probes the ports in increasing
\* order and returns the lowest port of [start_port, start_port + max_attempts) on
\* which bind succeeds (5001-5003 in use, start 5001: 5004); if there is none it
\* raises, and the main thread ends without starting the HTTP server.
C19_LowestFreePort ==
  LET range == {p \in PortUniverse : start_port <= p /\ p < start_port + max_attempts}
      free == range \ occupied IN
    /\ pc["main"] = "f_bind" =>
         /\ port \in range
         /\ \A p \in range : p < port => p \in occupied
    /\ pc["main"] = "m_serve" =>
         /\ bound \in free
         /\ \A p \in free : bound <= p
    /\ pc["main"] = "m_aborted" => (free = {} /\ bound = None)
    /\ free = {} => ~Serving
    /\ (/\ Serving
        /\ start_port = 5001
        /\ max_attempts >= 4
        /\ {5001, 5002, 5003} \subseteq occupied
        /\ 5004 \notin occupied) => bound = 5004

\* The server runs on 5004 after a search from 5001 that found 5001-5003 in use.
C19_Witness ==
  /\ Serving
  /\ start_port = 5001
  /\ {5001, 5002, 5003} \subseteq occupied
  /\ bound = 5004

\* C20: a /video_feed stream emits no part as long as it has captured no frame.  A
\* part is written only at the yield, from the frame a successful async_read of the
\* same iteration bound; frame_bgr is bound only by a read that returned, with the
\* camera present; so with the camera absent or every read failing the output of
\* the stream stays empty.
C20_NoPartWithoutFrame ==
  [][\A s \in Streams :
       /\ out'[s] # out[s] =>
            /\ pc[s] = "v_yield"
            /\ frame[s] \in 1..captured
            /\ out'[s] = Append(out[s], JpegOf(frame[s]))
       /\ frame'[s] \notin {frame[s], 0} =>
            /\ pc[s] = "v_read"
            /\ camera # None
            /\ frame'[s] = captured'
       /\ pc'[s] \in {"v_encode", "v_yield"} => frame'[s] \in 1..captured'
       /\ (camera' = None \/ captured' = 0) => out'[s] = <<>>]_vars

\* One stream has emitted a part while another, whose read has just failed, has
\* emitted none.
C20_Witness ==
  \E s, t \in Streams :
    /\ out[s] # <<>>
    /\ pc[t] = "v_failed_sleep"
    /\ out[t] = <<>>

\* C21: every part emitted on a /video_feed stream carries the successful JPEG
\* encoding of one successfully read frame: its body starts with the JPEG magic
\* bytes and encodes a frame the camera has delivered, and a part is written only
\* from the buffer of an encoding that succeeded on the frame read in the same
\* iteration.
C21_PartsAreJpegOfReadFrames ==
  \A s \in Streams :
    /\ \A i \in 1..Len(out[s]) :
         /\ out[s][i] # NoBytes
         /\ out[s][i].magic = "FFD8"
         /\ out[s][i].frame \in 1..captured
    /\ pc[s] = "v_yield" =>
         /\ frame[s] \in 1..captured
         /\ buffer[s] # NoBytes
         /\ buffer[s].magic = "FFD8"
         /\ buffer[s].frame = frame[s]

\* The only stream ever opened has emitted frame 2 and nothing else, its client
\* still connected: it had read frame 1, whose encoding failed.
C21_Witness ==
  \E s \in Streams :
    /\ \A t \in Streams \ {s} : pc[t] = "idle"
    /\ ~clientGone[s]
    /\ captured = 2
    /\ Len(out[s]) = 1
    /\ out[s][1].frame = 2

CompleteSnapshot(d) ==
  /\ DOMAIN d = {"motors", "min_voltage", "max_temp", "timestamp"}
  /\ DOMAIN d.motors = MotorNameSet
  /\ \A n \in MotorNameSet :
       DOMAIN d.motors[n] = {"voltage", "temp", "load", "current", "position"}

\* C23: for each arm the data in the store, and so the data a /robot_data response
\* carries, is either empty or a complete snapshot; it is empty at the start and
\* becomes non-empty only by a step taken while the arm is connected, so it is empty
\* as long as the arm has never been connected (always, for an arm without a port).
C23_DataEmptyOrComplete ==
  [][\A a \in Arms :
       /\ robot_state[a].data = EmptyData \/ CompleteSnapshot(robot_state[a].data)
       /\ robot_state'[a].data = EmptyData \/ CompleteSnapshot(robot_state'[a].data)
       /\ robot_state'[a].data # robot_state[a].data =>
            (robot_state[a].connected /\ robot_state[a].bus # None)
       /\ ~ports[a] => robot_state'[a].data = EmptyData
       /\ \A g \in Getters :
            pc'[g] = "g_return" =>
              LET d == RobotDataResponse(resp'[g])[a].data IN
                /\ d = EmptyData \/ CompleteSnapshot(d)
                /\ d = robot_state'[a].data]_vars

\* A response is complete that carries a full snapshot of the leader and empty data
\* for the follower, which has a port but has never been connected.
C23_Witness ==
  \E g \in Getters :
    /\ pc[g] = "g_return"
    /\ RobotDataResponse(resp[g]).leader.data # EmptyData
    /\ RobotDataResponse(resp[g]).follower.data = EmptyData
    /\ ports["follower"]
    /\ robot_state["follower"].bus = None
    /\ \A r \in Reconnectors : pc[r] = "idle"

\* C24: an arm's stored snapshot is changed only by the publish step of a poller
\* read of that same arm whose five reads succeeded; every other step (a failed
\* read, a read of the other arm, connect_robots, the teardown and the connect of a
\* /reconnect, /robot_data) leaves it as it is, connected or not.
C24_OnlyPollerPublishChangesData ==
  [][\A a \in Arms :
       robot_state'[a].data # robot_state[a].data =>
         /\ PublishStep
         /\ robot_lock = "poller"
         /\ PollerArm = a
         /\ Len(reads) = Len(Registers)
         /\ robot_state[a].connected
         /\ robot_state'[a].data # EmptyData
         /\ robot_state'[a].data.timestamp = now]_vars

\* A /reconnect has torn down an arm that holds a snapshot: the arm is disconnected,
\* without a handle, and the snapshot is still in the store.
C24_Witness ==
  \E r \in Reconnectors : \E a \in Arms :
    /\ pc[r] = "connect_robots"
    /\ a \in tornDown[r]
    /\ ~robot_state[a].connected
    /\ robot_state[a].bus = None
    /\ robot_state[a].data # EmptyData

\* C25: in every reachable state, with poller ticks and several /reconnect requests
\* interleaved in any way, an arm whose connected flag is true has a bus handle in
\* the store.  (The converse need not hold.)
C25_ConnectedHasBus ==
  \A a \in Arms : robot_state[a].connected => robot_state[a].bus # None

\* Two /reconnect requests have overlapped: the connect of one has failed for an arm
\* after the other's had succeeded, which leaves a handle in the store with the
\* flag false.
C25_Witness ==
  \E r1, r2 \in Reconnectors : \E a \in Arms :
    /\ pc[r1] = "done"
    /\ pc[r2] = "c_release"
    /\ outcome[r2][a] = "fail"
    /\ robot_state[a].bus # None
    /\ ~robot_state[a].connected

\* C26: a stream never holds camera_lock while it is suspended at the yield, handing
\* a part to its client (nor while it encodes): the lock is released before every
\* yield, so a stream waiting for a slow or departed client leaves camera_lock to
\* the other viewers.
C26_NoLockAtYield ==
  \A s \in Streams :
    /\ pc[s] \in {"v_encode", "v_yield", "v_closed"} => camera_lock # s
    /\ (pc[s] = "v_yield" /\ camera_lock = NoThread) =>
         \A t \in Streams \ {s} : pc[t] = "v_loop" => ENABLED StreamAcquire(t)

\* A stream is suspended at the yield, its client having taken MaxParts parts and
\* reading no more, while another stream is inside its read of the camera.
C26_Witness ==
  \E s, t \in Streams :
    /\ pc[s] = "v_yield"
    /\ ~clientGone[s]
    /\ Len(out[s]) = MaxParts
    /\ pc[t] = "v_read"
    /\ camera_lock = t

\* The value in the store of the i-th field a /robot_data handler reads.
StoredField(i) ==
  IF GetFields[i][2] = "connected"
  THEN robot_state[GetFields[i][1]].connected
  ELSE robot_state[GetFields[i][1]].data

\* C27: a /robot_data response reflects the store between whole poller ticks.  While
\* a handler reads its four values the poller is outside a tick, and every value
\* read so far is still the one in the store: the flag and the data of both arms
\* come from one state of the store, after the same number of completed ticks.
C27_ResponseBetweenWholeTicks ==
  \A g \in Getters :
    pc[g] \in {"g_read", "g_return"} =>
      /\ robot_lock = g
      /\ pc["poller"] \notin InTick
      /\ \A i \in 1..Len(resp[g]) : resp[g][i] = StoredField(i)
      /\ pc[g] = "g_return" => Len(resp[g]) = Len(GetFields)

\* A response is complete that carries, for both arms, the snapshots of the second
\* tick.
C27_Witness ==
  \E g \in Getters :
    /\ pc[g] = "g_return"
    /\ \A a \in Arms :
         /\ RobotDataResponse(resp[g])[a].connected
         /\ RobotDataResponse(resp[g])[a].data # EmptyData
         /\ RobotDataResponse(resp[g])[a].data.timestamp = 2

====
